---- MODULE Spec2Model ----
(***************************************************************************)
(* Blog platform REST server (server.js): the post store, the query and   *)
(* pagination handler GET /api/posts, the create, update and delete       *)
(* handlers over a MongoDB collection with a unique index on slug, the     *)
(* images collection with its add and list handlers and the upload route,  *)
(* and the browser side: the BlogAPI client (api.ts) and the HomePage.      *)
(*                                                                         *)
(* Strings are sequences of one-character strings.  A JavaScript value    *)
(* that may be undefined or null is a sequence of length at most one:     *)
(* <<>> for undefined / null, <<v>> for the value v.                       *)
(***************************************************************************)
EXTENDS Integers, Sequences, FiniteSets, TLC

VARIABLES posts, nextId, now, resp, inflight, images, nextImageId, uploads, home

\* The images collection and the _id its next insertOne assigns.
imageVars == <<images, nextImageId>>

\* uploads: the files of the server's uploads directory.  home: the state of
\* the HomePage component in the browser.
vars == <<posts, nextId, now, resp, inflight, images, nextImageId, uploads, home>>

(***************************************************************************)
(* Bounds of the model.                                                    *)
(***************************************************************************)
\* ObjectIds the store hands out over a run (ids are never reused).
MaxPosts == 2
\* Last millisecond of the server clock (new Date()).
MaxTime == 1
\* Image records the store takes over a run.
MaxImages == 2
\* Longest title generateSlug is applied to, in characters.
MaxTitleLen == 3

(***************************************************************************)
(* JavaScript values.                                                      *)
(***************************************************************************)
None == <<>>
Some(v) == <<v>>
IsSome(o) == o # <<>>
Val(o) == o[1]

Range(s) == {s[i] : i \in 1..Len(s)}
Min(a, b) == IF a <= b THEN a ELSE b

UpperLetters ==
  <<"A", "B", "C", "D", "E", "F", "G", "H", "I", "J", "K", "L", "M",
    "N", "O", "P", "Q", "R", "S", "T", "U", "V", "W", "X", "Y", "Z">>
LowerLetters ==
  <<"a", "b", "c", "d", "e", "f", "g", "h", "i", "j", "k", "l", "m",
    "n", "o", "p", "q", "r", "s", "t", "u", "v", "w", "x", "y", "z">>

ToLower ==
  [c \in Range(UpperLetters) |->
     LowerLetters[CHOOSE i \in 1..Len(UpperLetters) : UpperLetters[i] = c]]

\* String.prototype.toLowerCase on one character.
LowerChar(c) == IF c \in DOMAIN ToLower THEN ToLower[c] ELSE c

toLowerCase(s) == [i \in 1..Len(s) |-> LowerChar(s[i])]

\* The character classes of the regular expressions of generateSlug.
SlugLetters == Range(LowerLetters)
SlugDigits == {"0", "1", "2", "3", "4", "5", "6", "7", "8", "9"}
Whitespace == {" "}
Hyphen == {"-"}

\* s.replace(/[^a-z0-9\s-]/g, '')
RemoveNonSlugChars(s) ==
  SelectSeq(s, LAMBDA c : c \in SlugLetters \cup SlugDigits \cup Whitespace \cup Hyphen)

RECURSIVE DropRun(_, _)
DropRun(s, class) ==
  IF s # <<>> /\ Head(s) \in class THEN DropRun(Tail(s), class) ELSE s

\* s.replace(/class+/g, '-'): every maximal run of class becomes one hyphen.
RECURSIVE ReplaceRuns(_, _)
ReplaceRuns(s, class) ==
  IF s = <<>> THEN <<>>
  ELSE IF Head(s) \in class
       THEN <<"-">> \o ReplaceRuns(DropRun(s, class), class)
       ELSE <<Head(s)>> \o ReplaceRuns(Tail(s), class)

RECURSIVE DropRunEnd(_, _)
DropRunEnd(s, class) ==
  IF s # <<>> /\ s[Len(s)] \in class
  THEN DropRunEnd(SubSeq(s, 1, Len(s) - 1), class)
  ELSE s

\* String.prototype.trim: strips leading and trailing whitespace only.
trim(s) == DropRunEnd(DropRun(s, Whitespace), Whitespace)

\* Mutant of generateSlug: hyphen runs are not collapsed.
generateSlugNoCollapse(title) ==
  trim(ReplaceRuns(RemoveNonSlugChars(toLowerCase(title)), Whitespace))

\* Mutant of generateSlug: hyphen runs are collapsed before the whitespace runs
\* are replaced.
generateSlugHyphensFirst(title) ==
  trim(ReplaceRuns(ReplaceRuns(RemoveNonSlugChars(toLowerCase(title)), Hyphen), Whitespace))

\* generateSlug of server.js
generateSlug(title) ==
  trim(ReplaceRuns(ReplaceRuns(RemoveNonSlugChars(toLowerCase(title)), Whitespace), Hyphen))

\* BlogAPI.generateSlug of api.ts
BlogAPIGenerateSlug(title) ==
  trim(ReplaceRuns(ReplaceRuns(RemoveNonSlugChars(toLowerCase(title)), Whitespace), Hyphen))

\* JavaScript truthiness of an optional string: undefined and '' are falsy.
TruthyStr(o) == IsSome(o) /\ Val(o) # <<>>
\* JavaScript truthiness of an optional boolean.
TruthyBool(o) == IsSome(o) /\ Val(o) = TRUE

(***************************************************************************)
(* The posts collection: a set of documents.  connectToDatabase creates a *)
(* unique index on slug, so insertOne and updateOne throw a duplicate-key *)
(* error when the written document's slug is held by another document.    *)
(***************************************************************************)
\* Mutant of SlugTaken: the index on slug is not unique.
SlugNeverTaken(coll, slug, exceptId) == FALSE

SlugTaken(coll, slug, exceptId) ==
  \E p \in coll : p._id # exceptId /\ p.slug = slug

\* postData of POST /api/posts, with the _id insertOne assigns.
PostData(body, t, id) ==
  [ _id            |-> id,
    title          |-> Val(body.title),
    slug           |-> generateSlug(Val(body.title)),
    content        |-> Val(body.content),
    excerpt        |-> IF TruthyStr(body.excerpt) THEN Val(body.excerpt) ELSE <<>>,
    tags           |-> IF IsSome(body.tags) THEN Val(body.tags) ELSE <<>>,
    featured_image |-> IF TruthyStr(body.featured_image)
                       THEN Val(body.featured_image) ELSE <<>>,
    published      |-> TruthyBool(body.published),
    published_at   |-> IF TruthyBool(body.published) THEN Some(t) ELSE None,
    created_at     |-> t,
    updated_at     |-> t ]

\* Mutant of CreateBodyValid: only undefined is rejected, '' is accepted.
CreateBodyValidNonNull(body) == IsSome(body.title) /\ IsSome(body.content)

\* The validation of POST /api/posts: if (!title || !content) -> 400.
CreateBodyValid(body) == TruthyStr(body.title) /\ TruthyStr(body.content)

\* Mutant of InsertAndRespond: an upsert on slug, the holder of the slug is
\* replaced by the new document.
InsertOverwrites(coll, body, t, id) ==
  LET doc == PostData(body, t, id) IN
  [posts |-> {p \in coll : p.slug # doc.slug} \cup {doc}, inserted |-> TRUE,
   resp |-> [op |-> "createPost", status |-> 201, post |-> doc]]

\* postsCollection.insertOne(postData) and the response that follows it.
InsertAndRespond(coll, body, t, id) ==
  LET doc == PostData(body, t, id) IN
  IF SlugTaken(coll, doc.slug, id)
  THEN [posts |-> coll, inserted |-> FALSE,
        resp |-> [op |-> "createPost", status |-> 500]]
  ELSE [posts |-> coll \cup {doc}, inserted |-> TRUE,
        resp |-> [op |-> "createPost", status |-> 201, post |-> doc]]

\* Mutant of UpdateData: published=false also sets published_at to null.
UpdateDataClearsPublishedAt(body, t) ==
  [ updated_at     |-> Some(t),
    title          |-> IF TruthyStr(body.title) THEN body.title ELSE None,
    slug           |-> IF TruthyStr(body.title)
                       THEN Some(generateSlug(Val(body.title))) ELSE None,
    content        |-> body.content,
    excerpt        |-> body.excerpt,
    tags           |-> body.tags,
    featured_image |-> body.featured_image,
    published      |-> IF IsSome(body.published)
                       THEN Some(TruthyBool(body.published)) ELSE None,
    published_at   |-> IF TruthyBool(body.published) THEN Some(Some(t))
                       ELSE IF IsSome(body.published) THEN Some(None) ELSE None ]

\* Mutant of UpdateData: published is set without stamping published_at.
UpdateDataNoStamp(body, t) ==
  [ updated_at     |-> Some(t),
    title          |-> IF TruthyStr(body.title) THEN body.title ELSE None,
    slug           |-> IF TruthyStr(body.title)
                       THEN Some(generateSlug(Val(body.title))) ELSE None,
    content        |-> body.content,
    excerpt        |-> body.excerpt,
    tags           |-> body.tags,
    featured_image |-> body.featured_image,
    published      |-> IF IsSome(body.published)
                       THEN Some(TruthyBool(body.published)) ELSE None,
    published_at   |-> None ]

\* Mutant of UpdateData: the title is set without re-deriving the slug.
UpdateDataKeepsSlug(body, t) ==
  [ updated_at     |-> Some(t),
    title          |-> IF TruthyStr(body.title) THEN body.title ELSE None,
    slug           |-> None,
    content        |-> body.content,
    excerpt        |-> body.excerpt,
    tags           |-> body.tags,
    featured_image |-> body.featured_image,
    published      |-> IF IsSome(body.published)
                       THEN Some(TruthyBool(body.published)) ELSE None,
    published_at   |-> IF TruthyBool(body.published) THEN Some(Some(t)) ELSE None ]

\* updateData of PUT /api/posts/:id: only the supplied fields are set.
UpdateData(body, t) ==
  [ updated_at     |-> Some(t),
    title          |-> IF TruthyStr(body.title) THEN body.title ELSE None,
    slug           |-> IF TruthyStr(body.title)
                       THEN Some(generateSlug(Val(body.title))) ELSE None,
    content        |-> body.content,
    excerpt        |-> body.excerpt,
    tags           |-> body.tags,
    featured_image |-> body.featured_image,
    published      |-> IF IsSome(body.published)
                       THEN Some(TruthyBool(body.published)) ELSE None,
    \* updateData.published_at is never set before this test, so it always passes
    published_at   |-> IF TruthyBool(body.published) THEN Some(Some(t)) ELSE None ]

SetFields == {"updated_at", "title", "slug", "content", "excerpt", "tags",
              "featured_image", "published", "published_at"}

\* { $set: updateData } applied to one document.
ApplySet(doc, upd) ==
  [k \in DOMAIN doc |->
     IF k \in SetFields /\ IsSome(upd[k]) THEN Val(upd[k]) ELSE doc[k]]

\* postsCollection.updateOne({ _id }, { $set: updateData }).
UpdateOne(coll, id, upd) ==
  IF ~\E p \in coll : p._id = id
  THEN [posts |-> coll, matchedCount |-> 0, threw |-> FALSE]
  ELSE LET old == CHOOSE p \in coll : p._id = id
           new == ApplySet(old, upd)
       IN IF SlugTaken(coll, new.slug, id)
          THEN [posts |-> coll, matchedCount |-> 0, threw |-> TRUE]
          ELSE [posts |-> (coll \ {old}) \cup {new}, matchedCount |-> 1,
                threw |-> FALSE]

\* postsCollection.findOne({ _id }): the document or null.
FindOne(coll, id) ==
  IF \E p \in coll : p._id = id THEN Some(CHOOSE p \in coll : p._id = id) ELSE None

(***************************************************************************)
(* GET /api/posts: filter, count, sort, skip and limit.                   *)
(***************************************************************************)
DefaultPage == 1
DefaultPageSize == 10

DigitChars == <<"0", "1", "2", "3", "4", "5", "6", "7", "8", "9">>
DigitValue(c) == (CHOOSE i \in 1..10 : DigitChars[i] = c) - 1
DigitString(n) == <<DigitChars[n + 1]>>

\* parseInt on a string of decimal digits: the value of its digit prefix.
RECURSIVE ParseDigits(_, _)
ParseDigits(s, acc) ==
  IF s = <<>> \/ Head(s) \notin SlugDigits THEN acc
  ELSE ParseDigits(Tail(s), 10 * acc + DigitValue(Head(s)))

parseInt(s) == ParseDigits(s, 0)

\* One pattern character of a $regex with $options 'i' against one character:
\* '.' matches any character, a letter matches itself in either case.
RegexCharMatches(pc, c) == pc = "." \/ LowerChar(pc) = LowerChar(c)

\* { field: { $regex: pattern, $options: 'i' } }: an unanchored match.
RegexTest(pattern, text) ==
  \E i \in 0..(Len(text) - Len(pattern)) :
    \A j \in 1..Len(pattern) : RegexCharMatches(pattern[j], text[i + j])

\* if (tags): a string is truthy unless empty, an array always.
TruthyTags(o) == IsSome(o) /\ (Val(o).isArray \/ Val(o).str # "")

\* tagArray = Array.isArray(tags) ? tags : [tags]
TagArray(t) == IF t.isArray THEN t.arr ELSE <<t.str>>

\* Mutant of BuildQuery: published is Boolean(published), true for 'false' too.
BuildQueryTruthyPublished(req) ==
  [ or        |-> IF TruthyStr(req.search) THEN req.search ELSE None,
    tags      |-> IF TruthyTags(req.tags) THEN Some(TagArray(Val(req.tags))) ELSE None,
    published |-> IF IsSome(req.published)
                  THEN Some(Val(req.published) # "") ELSE None ]

\* The MongoDB query object built from req.query.
BuildQuery(req) ==
  [ or        |-> IF TruthyStr(req.search) THEN req.search ELSE None,
    tags      |-> IF TruthyTags(req.tags) THEN Some(TagArray(Val(req.tags))) ELSE None,
    published |-> IF IsSome(req.published)
                  THEN Some(Val(req.published) = "true") ELSE None ]

\* Mutant of MongoMatches: $all instead of $in, every requested tag is required.
MongoMatchesAllTags(doc, query) ==
  /\ IsSome(query.or) =>
       \E f \in {doc.title, doc.content, doc.excerpt} : RegexTest(Val(query.or), f)
  /\ IsSome(query.tags) => Range(Val(query.tags)) \subseteq Range(doc.tags)
  /\ IsSome(query.published) => doc.published = Val(query.published)

\* Mutant of MongoMatches: the conditions are alternatives ($or) instead of ANDed.
MongoMatchesAny(doc, query) ==
  \/ ~IsSome(query.or) /\ ~IsSome(query.tags) /\ ~IsSome(query.published)
  \/ IsSome(query.or) /\
       \E f \in {doc.title, doc.content, doc.excerpt} : RegexTest(Val(query.or), f)
  \/ IsSome(query.tags) /\
       \E i \in 1..Len(doc.tags) : doc.tags[i] \in Range(Val(query.tags))
  \/ IsSome(query.published) /\ doc.published = Val(query.published)

\* Whether a document satisfies the query: its top-level keys are ANDed.
MongoMatches(doc, query) ==
  /\ IsSome(query.or) =>
       \E f \in {doc.title, doc.content, doc.excerpt} : RegexTest(Val(query.or), f)
  /\ IsSome(query.tags) =>
       \E i \in 1..Len(doc.tags) : doc.tags[i] \in Range(Val(query.tags))
  /\ IsSome(query.published) => doc.published = Val(query.published)

Find(coll, query) == {p \in coll : MongoMatches(p, query)}

\* countDocuments(query)
CountDocuments(coll, query) == Cardinality(Find(coll, query))

\* BSON order of published_at: null sorts below every date.
PublishedAtKey(p) == IF IsSome(p.published_at) THEN Val(p.published_at) ELSE -1

\* Mutant of SortsBefore: .sort({ published_at: -1 }), no tie-break on created_at.
SortsBeforeNoTieBreak(p, q) == PublishedAtKey(p) > PublishedAtKey(q)

\* p comes strictly before q under .sort({ published_at: -1, created_at: -1 }).
SortsBefore(p, q) ==
  \/ PublishedAtKey(p) > PublishedAtKey(q)
  \/ PublishedAtKey(p) = PublishedAtKey(q) /\ p.created_at > q.created_at

OrderingsOf(S) ==
  {s \in [1..Cardinality(S) -> S] : \A i, j \in 1..Cardinality(S) : i # j => s[i] # s[j]}

\* Every order the sort may return: documents equal on both keys come in any order.
SortedOrders(S) ==
  {s \in OrderingsOf(S) : \A i, j \in 1..Len(s) : i < j => ~SortsBefore(s[j], s[i])}

\* Mutant of SkipLimit: the limit is not applied.
SkipLimitUnlimited(s, k, n) == SubSeq(s, k + 1, Len(s))

\* Mutant of SkipLimit: a skip beyond the end falls back to the first page.
SkipLimitWrapped(s, k, n) ==
  IF k >= Len(s) THEN SubSeq(s, 1, Min(Len(s), n))
  ELSE SubSeq(s, k + 1, Min(Len(s), k + n))

\* cursor.skip(k).limit(n); limit(0) means no limit.
SkipLimit(s, k, n) ==
  IF n = 0 THEN SubSeq(s, k + 1, Len(s)) ELSE SubSeq(s, k + 1, Min(Len(s), k + n))

\* Mutant of Ceil: Math.floor instead of Math.ceil.
Floor(a, b) == a \div b

\* Math.ceil(a / b) for a >= 0, b > 0.
Ceil(a, b) == (a + b - 1) \div b

PageNum(req) == IF IsSome(req.page) THEN parseInt(Val(req.page)) ELSE DefaultPage
PageSizeNum(req) ==
  IF IsSome(req.pageSize) THEN parseInt(Val(req.pageSize)) ELSE DefaultPageSize

\* The response of GET /api/posts when the sort returns the order `sorted`.
\* A negative skip is refused by the database and the catch block answers 500.
\* For pageSizeNum = 0, Math.ceil(total / 0) is Infinity (NaN for total = 0),
\* which res.json writes as null: the response has no number as totalPages.
PostsResponse(coll, req, sorted) ==
  LET query == BuildQuery(req)
      total == CountDocuments(coll, query)
      pageNum == PageNum(req)
      pageSizeNum == PageSizeNum(req)
      skip == (pageNum - 1) * pageSizeNum
  IN IF skip < 0
     THEN [ op |-> "getPosts", status |-> 500, req |-> req ]
     ELSE IF pageSizeNum = 0
     THEN [ op         |-> "getPosts",
            status     |-> 200,
            req        |-> req,
            posts      |-> SkipLimit(sorted, skip, pageSizeNum),
            total      |-> total,
            page       |-> pageNum,
            pageSize   |-> pageSizeNum,
            totalPagesNull |-> IF total = 0 THEN "NaN" ELSE "Infinity" ]
     ELSE [ op         |-> "getPosts",
            status     |-> 200,
            req        |-> req,
            posts      |-> SkipLimit(sorted, skip, pageSizeNum),
            total      |-> total,
            page       |-> pageNum,
            pageSize   |-> pageSizeNum,
            totalPages |-> Ceil(total, pageSizeNum) ]

(***************************************************************************)
(* The request handlers, each as one atomic action.  resp is the response *)
(* of the request handled last.                                            *)
(***************************************************************************)
Clients == {"c1", "c2"}
Idle == [pc |-> "idle"]

\* The HomePage component before it is mounted.
Unmounted == [mounted |-> FALSE]

Init ==
  /\ posts = {}
  /\ nextId = 1
  /\ now = 0
  /\ resp = [op |-> "none"]
  /\ inflight = [c \in Clients |-> Idle]
  /\ images = {}
  /\ nextImageId = 1
  /\ uploads = {}
  /\ home = Unmounted

\* The server clock moves on by a millisecond.
Tick ==
  /\ now < MaxTime
  /\ now' = now + 1
  /\ UNCHANGED <<posts, nextId, resp, inflight>>
  /\ UNCHANGED <<imageVars, uploads, home>>

\* app.get('/api/posts')
GetPosts(req) ==
  /\ \E sorted \in SortedOrders(Find(posts, BuildQuery(req))) :
       resp' = PostsResponse(posts, req, sorted)
  /\ UNCHANGED <<posts, nextId, now, inflight>>
  /\ UNCHANGED <<imageVars, uploads, home>>

\* app.post('/api/posts')
CreatePost(body) ==
  /\ nextId <= MaxPosts
  /\ IF ~CreateBodyValid(body)
     THEN /\ resp' = [op |-> "createPost", status |-> 400]
          /\ UNCHANGED <<posts, nextId>>
     ELSE LET r == InsertAndRespond(posts, body, now, nextId) IN
          /\ posts' = r.posts
          /\ nextId' = IF r.inserted THEN nextId + 1 ELSE nextId
          /\ resp' = r.resp
  /\ UNCHANGED <<now, inflight>>
  /\ UNCHANGED <<imageVars, uploads, home>>

\* The response of PUT /api/posts/:id when updateOne threw or matched nothing.
UpdateFailure(u) ==
  IF u.threw THEN [op |-> "updatePost", status |-> 500]
  ELSE [op |-> "updatePost", status |-> 404]

\* The response of PUT /api/posts/:id: the document findOne reads back.
UpdateSuccess(coll, id) ==
  [op |-> "updatePost", status |-> 200, post |-> FindOne(coll, id)]

\* app.put('/api/posts/:id')
UpdatePost(id, body) ==
  LET u == UpdateOne(posts, id, UpdateData(body, now)) IN
  /\ posts' = u.posts
  /\ resp' = IF u.threw \/ u.matchedCount = 0 THEN UpdateFailure(u)
             ELSE UpdateSuccess(u.posts, id)
  /\ UNCHANGED <<nextId, now, inflight>>
  /\ UNCHANGED <<imageVars, uploads, home>>

(***************************************************************************)
(* The write handlers step by step: a handler runs up to its next await,  *)
(* and the handlers of other requests run in between.  inflight[c] is the *)
(* request of client c that is waiting for its database call.             *)
(***************************************************************************)
\* POST /api/posts up to `await insertOne`: validation, slug and timestamps.
StartCreate(c, body) ==
  /\ inflight[c] = Idle
  /\ IF ~CreateBodyValid(body)
     THEN /\ resp' = [op |-> "createPost", status |-> 400]
          /\ UNCHANGED inflight
     ELSE /\ inflight' = [inflight EXCEPT ![c] = [pc |-> "insertOne", body |-> body,
                                                  t |-> now]]
          /\ UNCHANGED resp
  /\ UNCHANGED <<posts, nextId, now>>
  /\ UNCHANGED <<imageVars, uploads, home>>

\* insertOne runs in the database, and the handler responds.
FinishCreate(c) ==
  /\ inflight[c].pc = "insertOne"
  /\ nextId <= MaxPosts
  /\ LET r == InsertAndRespond(posts, inflight[c].body, inflight[c].t, nextId) IN
     /\ posts' = r.posts
     /\ nextId' = IF r.inserted THEN nextId + 1 ELSE nextId
     /\ resp' = r.resp
  /\ inflight' = [inflight EXCEPT ![c] = Idle]
  /\ UNCHANGED now
  /\ UNCHANGED <<imageVars, uploads, home>>

\* PUT /api/posts/:id up to `await updateOne`: updateData is built.
StartUpdate(c, id, body) ==
  /\ inflight[c] = Idle
  /\ inflight' = [inflight EXCEPT ![c] = [pc |-> "updateOne", id |-> id,
                                          upd |-> UpdateData(body, now)]]
  /\ UNCHANGED <<posts, nextId, now, resp>>
  /\ UNCHANGED <<imageVars, uploads, home>>

\* updateOne runs in the database; the handler responds 500 or 404, or goes on
\* to `await findOne`.
DoUpdateOne(c) ==
  /\ inflight[c].pc = "updateOne"
  /\ LET u == UpdateOne(posts, inflight[c].id, inflight[c].upd) IN
     /\ posts' = u.posts
     /\ IF u.threw \/ u.matchedCount = 0
        THEN /\ resp' = UpdateFailure(u)
             /\ inflight' = [inflight EXCEPT ![c] = Idle]
        ELSE /\ inflight' = [inflight EXCEPT ![c] = [pc |-> "findOne",
                                                     id |-> inflight[c].id]]
             /\ UNCHANGED resp
  /\ UNCHANGED <<nextId, now>>
  /\ UNCHANGED <<imageVars, uploads, home>>

\* findOne runs in the database, and the handler responds with what it read.
FinishUpdate(c) ==
  /\ inflight[c].pc = "findOne"
  /\ resp' = UpdateSuccess(posts, inflight[c].id)
  /\ inflight' = [inflight EXCEPT ![c] = Idle]
  /\ UNCHANGED <<posts, nextId, now>>
  /\ UNCHANGED <<imageVars, uploads, home>>

TitleBody(title) == [title |-> Some(title), content |-> None, excerpt |-> None,
                     tags |-> None, featured_image |-> None, published |-> None]

\* Titles: "a" and "A!" derive the same slug.
Titles == {<<"a">>, <<"A", "!">>, <<"b">>, <<"c">>}

\* Bodies of POST /api/posts: a draft of each title, and one without a title.
CreateBodies ==
  {[TitleBody(t) EXCEPT !.content = Some(<<"c">>)] : t \in Titles \cup {<<>>}}

\* Bodies of PUT /api/posts/:id: a change of the title.
UpdateBodies == {TitleBody(t) : t \in Titles}

\* The requests of Spec are in flight together, within one millisecond of the
\* server clock: the clock stands still here (FilterSpec and PageSpec move it).
Next ==
  \/ \E c \in Clients, body \in CreateBodies : StartCreate(c, body)
  \/ \E c \in Clients : FinishCreate(c)
  \/ \E c \in Clients, id \in 1..MaxPosts, body \in UpdateBodies : StartUpdate(c, id, body)
  \/ \E c \in Clients : DoUpdateOne(c)
  \/ \E c \in Clients : FinishUpdate(c)

Spec == Init /\ [][Next]_vars

(***************************************************************************)
(* The query engine on stores built by creating and publishing posts.     *)
(***************************************************************************)
Body(title, content, excerpt, tags, published) ==
  [title |-> title, content |-> content, excerpt |-> excerpt, tags |-> tags,
   featured_image |-> None, published |-> published]

QueryBodies ==
  { Body(Some(<<"a", "B">>), Some(<<"c">>), None, Some(<<"t1">>), Some(TRUE)),
    Body(Some(<<"c">>), Some(<<"a", "b">>), None, Some(<<"t2">>), None),
    Body(Some(<<"a">>), Some(<<"c">>), Some(<<"B", ".">>), Some(<<"t1", "t2">>),
         Some(TRUE)) }

PublishBody == Body(None, None, None, None, Some(TRUE))

TagString(s) == [isArray |-> FALSE, str |-> s]
TagList(a) == [isArray |-> TRUE, arr |-> a]

SearchParams == {None, Some(<<>>), Some(<<"b">>), Some(<<"a", ".">>)}
TagParams == {None, Some(TagString("")), Some(TagString("t1")),
              Some(TagList(<<"t2", "t3">>))}
PublishedParams == {None, Some("true"), Some("false"), Some("1")}

\* Requests that vary the filters, with the default page and page size.
FilterRequests ==
  [page : {None}, pageSize : {None}, search : SearchParams, tags : TagParams,
   published : PublishedParams]

\* Requests that vary the page and the page size.
PageRequests ==
  [page : {Some(DigitString(n)) : n \in 1..(MaxPosts + 1)},
   pageSize : {Some(DigitString(n)) : n \in 1..MaxPosts},
   search : {None}, tags : {None}, published : {None, Some("true")}]

\* Requests with a page or a page size of 0, next to valid and omitted ones.
EdgeRequests ==
  [page : {None} \cup {Some(DigitString(n)) : n \in 0..2},
   pageSize : {None} \cup {Some(DigitString(n)) : n \in 0..1},
   search : {None}, tags : {None}, published : {None}]

\* Pagination at its edges: page = 0 and pageSize = 0.
EdgeNext ==
  \/ \E body \in QueryBodies : CreatePost(body)
  \/ \E req \in EdgeRequests : GetPosts(req)

EdgeSpec == Init /\ [][EdgeNext]_vars

\* Filtering: stores of created posts, every combination of the three filters.
FilterNext ==
  \/ Tick
  \/ \E body \in QueryBodies : CreatePost(body)
  \/ \E req \in FilterRequests : GetPosts(req)

FilterSpec == Init /\ [][FilterNext]_vars

\* The ids of the stored drafts: the posts an author publishes later.
DraftIds == {p._id : p \in {q \in posts : ~q.published}}

\* Pagination and ordering: stores of posts created, and of drafts published later.
PageNext ==
  \/ Tick
  \/ \E body \in QueryBodies : CreatePost(body)
  \/ \E id \in DraftIds : UpdatePost(id, PublishBody)
  \/ \E req \in PageRequests : GetPosts(req)

PageSpec == Init /\ [][PageNext]_vars

(***************************************************************************)
(* Properties of GET /api/posts.                                           *)
(***************************************************************************)
IsPostsResponse == resp.op = "getPosts" /\ resp.status = 200

\* The whole selection is on the page: page 1 and a page size of at least the store.
WholeSelectionOnPage == resp.page = 1 /\ resp.pageSize >= Cardinality(posts)

\* The number a request parameter of decimal digits denotes, for n up to 9.
Denotes(param, n) == param = Some(DigitString(n))

SearchInForce(req) == IsSome(req.search) /\ Val(req.search) # <<>>
TagsInForce(req) == IsSome(req.tags) /\ (Val(req.tags).isArray \/ Val(req.tags).str # "")

\* s occurs in text as a case-insensitive substring.
ContainsIgnoringCase(text, s) ==
  \E i \in 0..(Len(text) - Len(s)) :
    \A j \in 1..Len(s) : LowerChar(s[j]) = LowerChar(text[i + j])

\* The requested tag set: empty when the parameter is absent or the empty string.
RequestedTags(req) ==
  IF ~IsSome(req.tags) THEN {}
  ELSE IF Val(req.tags).isArray THEN Range(Val(req.tags).arr)
  ELSE IF Val(req.tags).str = "" THEN {} ELSE {Val(req.tags).str}

\* C2: a response to a request with page >= 1 and pageSize >= 1 holds at most
\* pageSize posts.
C2_AtMostPageSize ==
  IsPostsResponse =>
    \A n \in 1..9, m \in 1..9 :
      (Denotes(resp.req.pageSize, n) /\ Denotes(resp.req.page, m)) =>
        Len(resp.posts) <= n

\* C2 witness: a response cut to exactly pageSize posts while more posts match.
C2_Witness ==
  /\ IsPostsResponse
  /\ \E n \in 1..9 : Denotes(resp.req.pageSize, n) /\ Len(resp.posts) = n
  /\ resp.total > Len(resp.posts)

\* C3: for pageSize >= 1, totalPages is ceil(total / pageSize), the least number
\* of pages of pageSize posts that hold total posts, and it is 0 exactly when
\* total is 0.
C3_TotalPages ==
  IsPostsResponse =>
    \A n \in 1..9 :
      Denotes(resp.req.pageSize, n) =>
        /\ resp.totalPages * n >= resp.total
        /\ (resp.totalPages - 1) * n < resp.total
        /\ (resp.totalPages = 0 <=> resp.total = 0)

\* C3 witness: a response whose total is not a multiple of the page size.
C3_Witness ==
  /\ IsPostsResponse
  /\ \E n \in 1..9 : Denotes(resp.req.pageSize, n) /\ resp.total % n # 0
  /\ resp.totalPages >= 1

\* C4: a request for a page beyond totalPages succeeds with an empty list, and
\* its total is the total page 1 returns for the same filter and page size: the
\* number of posts the filter selects.
C4_PageBeyondLast ==
  (resp.op = "getPosts" /\ resp.page > resp.totalPages) =>
    /\ resp.status = 200
    /\ resp.posts = <<>>
    /\ \A sorted \in SortedOrders(Find(posts, BuildQuery(resp.req))) :
         resp.total =
           PostsResponse(posts, [resp.req EXCEPT !.page = Some(DigitString(1))],
                         sorted).total
    /\ (~SearchInForce(resp.req) /\ ~TagsInForce(resp.req)) =>
         resp.total = Cardinality({p \in posts :
                         resp.req.published = Some("true") => p.published})

\* C4 witness: a page beyond the last one of a non-empty selection.
C4_Witness ==
  /\ IsPostsResponse
  /\ resp.page > resp.totalPages
  /\ resp.total >= 2

\* C6: with no other filter, the tags filter selects exactly the posts that have
\* one of the requested tags, and every post when the requested set is empty.
C6_TagsFilter ==
  (IsPostsResponse /\ ~SearchInForce(resp.req) /\ ~IsSome(resp.req.published)) =>
    LET wanted == IF RequestedTags(resp.req) = {} THEN posts
                  ELSE {p \in posts : Range(p.tags) \cap RequestedTags(resp.req) # {}}
    IN /\ resp.total = Cardinality(wanted)
       /\ Range(resp.posts) \subseteq wanted
       /\ WholeSelectionOnPage => Range(resp.posts) = wanted

\* C6 witness: a list of requested tags that selects one post and excludes another.
C6_Witness ==
  /\ IsPostsResponse /\ ~SearchInForce(resp.req) /\ ~IsSome(resp.req.published)
  /\ IsSome(resp.req.tags) /\ Val(resp.req.tags).isArray
  /\ resp.total >= 1
  /\ resp.total < Cardinality(posts)

\* A request with one of the three filters only.
OnlySearch(req) == [req EXCEPT !.tags = None, !.published = None]
OnlyTags(req) == [req EXCEPT !.search = None, !.published = None]
OnlyPublished(req) == [req EXCEPT !.search = None, !.tags = None]

\* C7: when search, tags and published are supplied together, the selection is
\* the intersection of the selections of each filter alone.
C7_FiltersAreAnded ==
  (IsPostsResponse /\ SearchInForce(resp.req) /\ TagsInForce(resp.req)
     /\ IsSome(resp.req.published)) =>
    LET wanted == Find(posts, BuildQuery(OnlySearch(resp.req)))
                    \cap Find(posts, BuildQuery(OnlyTags(resp.req)))
                    \cap Find(posts, BuildQuery(OnlyPublished(resp.req)))
    IN /\ resp.total = Cardinality(wanted)
       /\ Range(resp.posts) \subseteq wanted
       /\ WholeSelectionOnPage => Range(resp.posts) = wanted

\* C7 witness: the three filters together exclude a post that matches the search
\* but none of the tags, and one that matches the tags but not the search.
C7_Witness ==
  /\ IsPostsResponse /\ SearchInForce(resp.req) /\ TagsInForce(resp.req)
  /\ IsSome(resp.req.published)
  /\ \E p \in posts : /\ p \in Find(posts, BuildQuery(OnlySearch(resp.req)))
                      /\ p \notin Find(posts, BuildQuery(OnlyTags(resp.req)))
  /\ \E p \in posts : /\ p \in Find(posts, BuildQuery(OnlyTags(resp.req)))
                      /\ p \notin Find(posts, BuildQuery(OnlySearch(resp.req)))

\* C8: with no other filter, published=true selects exactly the published posts,
\* published=false exactly the drafts, any specified value selects by equality
\* with one boolean, and an omitted parameter selects every post.
C8_PublishedFilter ==
  (IsPostsResponse /\ ~SearchInForce(resp.req) /\ ~TagsInForce(resp.req)) =>
    \E wanted \in
         IF resp.req.published = None THEN {posts}
         ELSE IF resp.req.published = Some("true") THEN {{p \in posts : p.published}}
         ELSE IF resp.req.published = Some("false") THEN {{p \in posts : ~p.published}}
         ELSE {{p \in posts : p.published = b} : b \in BOOLEAN} :
      /\ resp.total = Cardinality(wanted)
      /\ Range(resp.posts) \subseteq wanted
      /\ WholeSelectionOnPage => Range(resp.posts) = wanted

\* C8 witness: published=false returns a draft and leaves a published post out.
C8_Witness ==
  /\ IsPostsResponse /\ ~SearchInForce(resp.req) /\ ~TagsInForce(resp.req)
  /\ resp.req.published = Some("false")
  /\ resp.total >= 1
  /\ \E p \in posts : p.published

\* C9: the returned posts are in published_at descending order, created_at
\* descending among equal published_at, and posts without published_at come
\* after every post with one.
C9_Ordering ==
  IsPostsResponse =>
    \A i, j \in 1..Len(resp.posts) :
      i < j =>
        LET p == resp.posts[i]
            q == resp.posts[j]
        IN /\ IsSome(q.published_at) => IsSome(p.published_at)
           /\ (IsSome(p.published_at) /\ IsSome(q.published_at)) =>
                Val(p.published_at) >= Val(q.published_at)
           /\ p.published_at = q.published_at => p.created_at >= q.created_at

\* C9 witness: two returned posts with the same published_at, ordered by their
\* different created_at.
C9_Witness ==
  /\ IsPostsResponse
  /\ \E i, j \in 1..Len(resp.posts) :
       /\ i < j
       /\ IsSome(resp.posts[i].published_at)
       /\ resp.posts[i].published_at = resp.posts[j].published_at
       /\ resp.posts[i].created_at > resp.posts[j].created_at

\* The length of page `page` when `total` posts are cut into pages of `size`.
PageLength(total, page, size) ==
  IF total - (page - 1) * size <= 0 THEN 0
  ELSE Min(size, total - (page - 1) * size)

SameFilterAndPageSize(r1, r2) ==
  /\ r1.search = r2.search /\ r1.tags = r2.tags /\ r1.published = r2.published
  /\ r1.pageSize = r2.pageSize

\* C1: on an unchanged store, the pages of one filter and page size partition
\* the ordered filtered list: every page has the length its place requires (so
\* the lengths of pages 1..totalPages add up to total), no post is on two pages,
\* and no post of a later page sorts before a post of an earlier page.
C1_PagesPartitionSelection ==
  [][ ( /\ IsPostsResponse
        /\ resp'.op = "getPosts"
        /\ posts' = posts
        /\ SameFilterAndPageSize(resp.req, resp'.req)
        /\ resp.page < resp'.page )
      => /\ Len(resp'.posts) = PageLength(resp'.total, resp'.page, resp'.pageSize)
         /\ Range(resp.posts) \cap Range(resp'.posts) = {}
         /\ \A p \in Range(resp.posts), q \in Range(resp'.posts) : ~SortsBefore(q, p)
    ]_vars

\* C5: with no other filter, the search filter selects exactly the posts that
\* hold the search text as a case-insensitive substring of title, content or
\* excerpt, and every post when the search text is absent or empty.
C5_SearchIsSubstring ==
  (IsPostsResponse /\ ~TagsInForce(resp.req) /\ ~IsSome(resp.req.published)) =>
    LET wanted == IF ~SearchInForce(resp.req) THEN posts
                  ELSE {p \in posts :
                          \E f \in {p.title, p.content, p.excerpt} :
                            ContainsIgnoringCase(f, Val(resp.req.search))}
    IN /\ resp.total = Cardinality(wanted)
       /\ Range(resp.posts) \subseteq wanted
       /\ WholeSelectionOnPage => Range(resp.posts) = wanted

\* C10: no two posts have the same slug, in every state that concurrent creates
\* and updates reach.
C10_SlugsUnique ==
  \A p, q \in posts : p.slug = q.slug => p = q

\* C10 witness: two creations in flight at once whose different titles derive the
\* same slug, next to a stored post.
C10_Witness ==
  /\ inflight["c1"].pc = "insertOne"
  /\ inflight["c2"].pc = "insertOne"
  /\ Val(inflight["c1"].body.title) # Val(inflight["c2"].body.title)
  /\ generateSlug(Val(inflight["c1"].body.title))
       = generateSlug(Val(inflight["c2"].body.title))
  /\ posts # {}

(***************************************************************************)
(* DELETE /api/posts/:id and the images of a post.  An image record holds *)
(* the :id of the request path as post_id; image_url, alt_text and caption,*)
(* which no handler reads back, are left out of the record.                *)
(***************************************************************************)
\* An :id for which ObjectId.isValid(id) is false.
InvalidId == 0
IsValidId(id) == id # InvalidId

\* The :id values of requests: the ids the store hands out, and an invalid one.
PathIds == {InvalidId} \cup (1..MaxPosts)

\* postsCollection.deleteOne({ _id: objectId })
DeleteOne(coll, id) ==
  [posts |-> {p \in coll : p._id # id},
   deletedCount |-> IF \E p \in coll : p._id = id THEN 1 ELSE 0]

\* Mutant of DeleteMany: the images of the post are not deleted.
DeleteManyNone(imgs, id) == imgs

\* imagesCollection.deleteMany({ post_id: id })
DeleteMany(imgs, id) == {im \in imgs : im.post_id # id}

\* processAndSaveImage: the file processed_${Date.now()}_${filename} it writes.
ProcessedFile(t, filename) == [t |-> t, name |-> filename]

\* parseInt(position) || 0: 0 when position is undefined or not a number.
ImagePosition(position) == IF IsSome(position) THEN parseInt(Val(position)) ELSE 0

\* imageData of POST /api/posts/:id/images, with the _id insertOne assigns.
ImageData(id, body, t, imageId) ==
  [ _id        |-> imageId,
    post_id    |-> id,
    position   |-> ImagePosition(body.position),
    created_at |-> t ]

\* imagesCollection.find({ post_id: id })
FindImages(imgs, id) == {im \in imgs : im.post_id = id}

\* Every order .sort({ position: 1 }) may return: equal positions in any order.
ImageSortedOrders(S) ==
  {s \in OrderingsOf(S) : \A i, j \in 1..Len(s) : i < j => s[i].position <= s[j].position}

\* app.delete('/api/posts/:id')
DeletePost(id) ==
  /\ IF ~IsValidId(id)
     THEN /\ resp' = [op |-> "deletePost", status |-> 400]
          /\ UNCHANGED <<posts, images>>
     ELSE LET d == DeleteOne(posts, id) IN
          /\ posts' = d.posts
          /\ IF d.deletedCount = 0
             THEN /\ resp' = [op |-> "deletePost", status |-> 404]
                  /\ UNCHANGED images
             ELSE /\ images' = DeleteMany(images, id)
                  /\ resp' = [op |-> "deletePost", status |-> 204]
  /\ UNCHANGED <<nextId, now, inflight, nextImageId, uploads, home>>

\* app.post('/api/posts/:id/images')
AddImage(id, body) ==
  /\ nextImageId <= MaxImages
  /\ IF ~body.file
     THEN /\ resp' = [op |-> "addImage", status |-> 400]
          /\ UNCHANGED <<imageVars, uploads>>
     ELSE LET doc == ImageData(id, body, now, nextImageId) IN
          /\ uploads' = uploads \cup {ProcessedFile(now, body.name)}
          /\ images' = images \cup {doc}
          /\ nextImageId' = nextImageId + 1
          /\ resp' = [op |-> "addImage", status |-> 201, image |-> doc]
  /\ UNCHANGED <<posts, nextId, now, inflight, home>>

\* app.get('/api/posts/:id/images')
GetImages(id) ==
  /\ \E sorted \in ImageSortedOrders(FindImages(images, id)) :
       resp' = [op |-> "getImages", status |-> 200, id |-> id, images |-> sorted]
  /\ UNCHANGED <<posts, nextId, now, inflight, imageVars, uploads, home>>

\* DELETE /api/posts/:id up to `await deleteOne`: the id is validated.
StartDelete(c, id) ==
  /\ inflight[c] = Idle
  /\ IF ~IsValidId(id)
     THEN /\ resp' = [op |-> "deletePost", status |-> 400]
          /\ UNCHANGED inflight
     ELSE /\ inflight' = [inflight EXCEPT ![c] = [pc |-> "deleteOne", id |-> id]]
          /\ UNCHANGED resp
  /\ UNCHANGED <<posts, nextId, now, imageVars, uploads, home>>

\* deleteOne runs in the database; the handler responds 404 or goes on to
\* `await deleteMany`.
DoDeleteOne(c) ==
  /\ inflight[c].pc = "deleteOne"
  /\ LET d == DeleteOne(posts, inflight[c].id) IN
     /\ posts' = d.posts
     /\ IF d.deletedCount = 0
        THEN /\ resp' = [op |-> "deletePost", status |-> 404]
             /\ inflight' = [inflight EXCEPT ![c] = Idle]
        ELSE /\ inflight' = [inflight EXCEPT ![c] = [pc |-> "deleteMany",
                                                     id |-> inflight[c].id]]
             /\ UNCHANGED resp
  /\ UNCHANGED <<nextId, now, imageVars, uploads, home>>

\* deleteMany runs in the database, and the handler responds 204.
DoDeleteMany(c) ==
  /\ inflight[c].pc = "deleteMany"
  /\ images' = DeleteMany(images, inflight[c].id)
  /\ resp' = [op |-> "deletePost", status |-> 204]
  /\ inflight' = [inflight EXCEPT ![c] = Idle]
  /\ UNCHANGED <<posts, nextId, now, nextImageId, uploads, home>>

\* POST /api/posts/:id/images up to `await insertOne`: the file is required, the
\* file is saved (no collection is touched) and imageData is built.
StartAddImage(c, id, body) ==
  /\ inflight[c] = Idle
  /\ IF ~body.file
     THEN /\ resp' = [op |-> "addImage", status |-> 400]
          /\ UNCHANGED <<inflight, uploads>>
     ELSE /\ uploads' = uploads \cup {ProcessedFile(now, body.name)}
          /\ inflight' = [inflight EXCEPT ![c] = [pc |-> "insertImage", id |-> id,
                                                  body |-> body, t |-> now]]
          /\ UNCHANGED resp
  /\ UNCHANGED <<posts, nextId, now, imageVars, home>>

\* insertOne runs in the database, and the handler responds 201.
FinishAddImage(c) ==
  /\ inflight[c].pc = "insertImage"
  /\ nextImageId <= MaxImages
  /\ LET doc == ImageData(inflight[c].id, inflight[c].body, inflight[c].t,
                          nextImageId) IN
     /\ images' = images \cup {doc}
     /\ nextImageId' = nextImageId + 1
     /\ resp' = [op |-> "addImage", status |-> 201, image |-> doc]
  /\ inflight' = [inflight EXCEPT ![c] = Idle]
  /\ UNCHANGED <<posts, nextId, now, uploads, home>>

\* Bodies of POST /api/posts of the image specifications: "a" and "b".
ImagePostBodies ==
  { Body(Some(<<"a">>), Some(<<"c">>), None, None, None),
    Body(Some(<<"b">>), Some(<<"c">>), None, None, None) }

\* Multipart bodies of POST /api/posts/:id/images after multer: a file named
\* "f" without a position, the file with position 1, and a body without a file
\* (file is whether req.file is set).
ImageBodies ==
  { [file |-> TRUE, name |-> "f", position |-> None],
    [file |-> TRUE, name |-> "f", position |-> Some(DigitString(1))],
    [file |-> FALSE, name |-> "f", position |-> None] }

\* Posts and their images, one request at a time.
ImageNext ==
  \/ \E body \in ImagePostBodies : CreatePost(body)
  \/ \E id \in PathIds : DeletePost(id)
  \/ \E id \in PathIds, body \in ImageBodies : AddImage(id, body)
  \/ \E id \in PathIds : GetImages(id)

ImageSpec == Init /\ [][ImageNext]_vars

\* Bodies of the concurrent add-image requests.
RaceImageBodies ==
  { [file |-> TRUE, name |-> "f", position |-> None],
    [file |-> FALSE, name |-> "f", position |-> None] }

\* Delete-post and add-image requests in flight together.
ImageRaceNext ==
  \/ \E body \in ImagePostBodies : CreatePost(body)
  \/ \E c \in Clients, id \in PathIds : StartDelete(c, id)
  \/ \E c \in Clients : DoDeleteOne(c)
  \/ \E c \in Clients : DoDeleteMany(c)
  \/ \E c \in Clients, id \in PathIds, body \in RaceImageBodies : StartAddImage(c, id, body)
  \/ \E c \in Clients : FinishAddImage(c)

ImageRaceSpec == Init /\ [][ImageRaceNext]_vars

(***************************************************************************)
(* The upload routes with their multer middleware: POST /api/upload and    *)
(* POST /api/posts/:id/images as a client reaches them.  A multipart part  *)
(* has file (whether the field 'image' carries a file), mimetype (what the *)
(* client declares), isImage (whether sharp can decode the bytes), name.   *)
(***************************************************************************)
ImagePrefix == <<"i", "m", "a", "g", "e", "/">>

\* String.prototype.startsWith
startsWith(str, prefix) ==
  /\ Len(str) >= Len(prefix)
  /\ SubSeq(str, 1, Len(prefix)) = prefix

\* fileFilter: cb(null, true) for image/*, cb(new Error(...)) otherwise.
fileFilter(file) == startsWith(file.mimetype, ImagePrefix)

\* upload.single('image'): "next" with req.file set or left undefined, or
\* "error" when fileFilter passes an Error, which Express hands to the error
\* middleware.
UploadSingle(part) ==
  IF ~part.file THEN [next |-> "route", file |-> FALSE]
  ELSE IF fileFilter(part) THEN [next |-> "route", file |-> TRUE]
  ELSE [next |-> "error", file |-> FALSE]

\* The parts a client sends: no file, and files named "f" or "g", declared
\* image/png or text/plain, whose bytes are or are not an image.
UploadParts ==
  {[file |-> FALSE, mimetype |-> <<>>, isImage |-> FALSE, name |-> "f"]}
    \cup [file : {TRUE},
          mimetype : {ImagePrefix \o <<"p", "n", "g">>,
                      <<"t", "e", "x", "t", "/", "p", "l", "a", "i", "n">>},
          isImage : BOOLEAN,
          name : {"f", "g"}]

\* POST /api/upload: multer, then the handler.  sharp rejects bytes that are
\* not an image before it writes the file, and the catch block answers 500.
UploadImage(part) ==
  /\ LET m == UploadSingle(part) IN
     IF m.next = "error"
     THEN /\ resp' = [op |-> "upload", status |-> 500]
          /\ UNCHANGED uploads
     ELSE IF ~m.file
     THEN /\ resp' = [op |-> "upload", status |-> 400]
          /\ UNCHANGED uploads
     ELSE IF ~part.isImage
     THEN /\ resp' = [op |-> "upload", status |-> 500]
          /\ UNCHANGED uploads
     ELSE /\ uploads' = uploads \cup {ProcessedFile(now, part.name)}
          /\ resp' = [op |-> "upload", status |-> 200,
                      imageUrl |-> ProcessedFile(now, part.name)]
  /\ UNCHANGED <<posts, nextId, now, inflight, imageVars, home>>

\* POST /api/posts/:id/images: multer, then the handler.
UploadPostImage(id, part, position) ==
  LET m == UploadSingle(part) IN
  IF m.next = "error" \/ (m.file /\ ~part.isImage)
  THEN /\ resp' = [op |-> "addImage", status |-> 500]
       /\ UNCHANGED <<posts, nextId, now, inflight, imageVars, uploads, home>>
  ELSE AddImage(id, [file |-> m.file, name |-> part.name, position |-> position])

\* Uploads of every kind of part, as time passes.
UploadNext ==
  \/ Tick
  \/ \E part \in UploadParts : UploadImage(part)
  \/ \E part \in UploadParts : UploadPostImage(1, part, None)

UploadSpec == Init /\ [][UploadNext]_vars

(***************************************************************************)
(* The client: BlogAPI of src/lib/api.ts.  Each read operation fetches     *)
(* from the backend and, in its catch block, falls back to the fixture.    *)
(* A call settles as "resolved" or "rejected"; `source` tells where a      *)
(* resolved value comes from.                                              *)
(***************************************************************************)
\* mockPosts: the three fixture posts.  content is shortened to its first
\* line; the dates and featured_image, which no operation reads, are left out.
mockPosts ==
  <<
  [ id |-> "1",
    title |->
      <<"G", "e", "t", "t", "i", "n", "g", " ", "S", "t", "a", "r", "t", "e",
        "d", " ", "w", "i", "t", "h", " ", "M", "o", "d", "e", "r", "n", " ",
        "W", "e", "b", " ", "D", "e", "v", "e", "l", "o", "p", "m", "e", "n",
        "t">>,
    slug |->
      <<"g", "e", "t", "t", "i", "n", "g", "-", "s", "t", "a", "r", "t", "e",
        "d", "-", "m", "o", "d", "e", "r", "n", "-", "w", "e", "b", "-", "d",
        "e", "v", "e", "l", "o", "p", "m", "e", "n", "t">>,
    content |->
      <<"#", " ", "W", "e", "l", "c", "o", "m", "e", " ", "t", "o", " ", "M",
        "o", "d", "e", "r", "n", " ", "W", "e", "b", " ", "D", "e", "v", "e",
        "l", "o", "p", "m", "e", "n", "t">>,
    excerpt |->
      <<"E", "x", "p", "l", "o", "r", "e", " ", "t", "h", "e", " ", "l", "a",
        "t", "e", "s", "t", " ", "t", "r", "e", "n", "d", "s", " ", "a", "n",
        "d", " ", "b", "e", "s", "t", " ", "p", "r", "a", "c", "t", "i", "c",
        "e", "s", " ", "i", "n", " ", "m", "o", "d", "e", "r", "n", " ", "w",
        "e", "b", " ", "d", "e", "v", "e", "l", "o", "p", "m", "e", "n", "t",
        ",", " ", "f", "r", "o", "m", " ", "f", "r", "o", "n", "t", "e", "n",
        "d", " ", "f", "r", "a", "m", "e", "w", "o", "r", "k", "s", " ", "t",
        "o", " ", "b", "a", "c", "k", "e", "n", "d", " ", "t", "e", "c", "h",
        "n", "o", "l", "o", "g", "i", "e", "s", ".">>,
    tags |-> <<"web development", "programming", "technology", "tutorial">>,
    published |-> TRUE ],
  [ id |-> "2",
    title |->
      <<"T", "h", "e", " ", "A", "r", "t", " ", "o", "f", " ", "D", "a", "t",
        "a", "b", "a", "s", "e", " ", "D", "e", "s", "i", "g", "n">>,
    slug |->
      <<"a", "r", "t", "-", "o", "f", "-", "d", "a", "t", "a", "b", "a", "s",
        "e", "-", "d", "e", "s", "i", "g", "n">>,
    content |->
      <<"#", " ", "M", "a", "s", "t", "e", "r", "i", "n", "g", " ", "D", "a",
        "t", "a", "b", "a", "s", "e", " ", "D", "e", "s", "i", "g", "n">>,
    excerpt |->
      <<"L", "e", "a", "r", "n", " ", "t", "h", "e", " ", "f", "u", "n", "d",
        "a", "m", "e", "n", "t", "a", "l", " ", "p", "r", "i", "n", "c", "i",
        "p", "l", "e", "s", " ", "o", "f", " ", "d", "a", "t", "a", "b", "a",
        "s", "e", " ", "d", "e", "s", "i", "g", "n", " ", "a", "n", "d", " ",
        "d", "i", "s", "c", "o", "v", "e", "r", " ", "b", "e", "s", "t", " ",
        "p", "r", "a", "c", "t", "i", "c", "e", "s", " ", "f", "o", "r", " ",
        "c", "r", "e", "a", "t", "i", "n", "g", " ", "e", "f", "f", "i", "c",
        "i", "e", "n", "t", ",", " ", "s", "c", "a", "l", "a", "b", "l", "e",
        " ", "d", "a", "t", "a", " ", "a", "r", "c", "h", "i", "t", "e", "c",
        "t", "u", "r", "e", "s", ".">>,
    tags |-> <<"database", "mongodb", "sql", "design", "performance">>,
    published |-> TRUE ],
  [ id |-> "3",
    title |->
      <<"B", "u", "i", "l", "d", "i", "n", "g", " ", "R", "e", "s", "p", "o",
        "n", "s", "i", "v", "e", " ", "U", "s", "e", "r", " ", "I", "n", "t",
        "e", "r", "f", "a", "c", "e", "s">>,
    slug |->
      <<"b", "u", "i", "l", "d", "i", "n", "g", "-", "r", "e", "s", "p", "o",
        "n", "s", "i", "v", "e", "-", "u", "s", "e", "r", "-", "i", "n", "t",
        "e", "r", "f", "a", "c", "e", "s">>,
    content |->
      <<"#", " ", "C", "r", "e", "a", "t", "i", "n", "g", " ", "B", "e", "a",
        "u", "t", "i", "f", "u", "l", ",", " ", "R", "e", "s", "p", "o", "n",
        "s", "i", "v", "e", " ", "U", "I", "s">>,
    excerpt |->
      <<"M", "a", "s", "t", "e", "r", " ", "t", "h", "e", " ", "a", "r", "t",
        " ", "o", "f", " ", "c", "r", "e", "a", "t", "i", "n", "g", " ", "r",
        "e", "s", "p", "o", "n", "s", "i", "v", "e", ",", " ", "a", "c", "c",
        "e", "s", "s", "i", "b", "l", "e", " ", "u", "s", "e", "r", " ", "i",
        "n", "t", "e", "r", "f", "a", "c", "e", "s", " ", "t", "h", "a", "t",
        " ", "p", "r", "o", "v", "i", "d", "e", " ", "e", "x", "c", "e", "p",
        "t", "i", "o", "n", "a", "l", " ", "u", "s", "e", "r", " ", "e", "x",
        "p", "e", "r", "i", "e", "n", "c", "e", "s", " ", "a", "c", "r", "o",
        "s", "s", " ", "a", "l", "l", " ", "d", "e", "v", "i", "c", "e", "s",
        ".">>,
    tags |-> <<"ui design", "responsive", "css", "accessibility", "frontend">>,
    published |-> TRUE ]
  >>

\* String.prototype.includes
includes(str, sub) ==
  \E i \in 0..(Len(str) - Len(sub)) : SubSeq(str, i + 1, i + Len(sub)) = sub

\* Array.prototype.slice(start, end) for 0 <= start <= end.
slice(arr, start, end) == SubSeq(arr, start + 1, Min(end, Len(arr)))

\* The search filter of getMockPosts: skipped when search is falsy.
MockSearchFilter(list, search) ==
  IF IsSome(search) /\ Val(search) # <<>>
  THEN LET searchLower == toLowerCase(Val(search)) IN
       SelectSeq(list, LAMBDA post :
         \/ includes(toLowerCase(post.title), searchLower)
         \/ includes(toLowerCase(post.content), searchLower)
         \/ includes(toLowerCase(post.excerpt), searchLower))
  ELSE list

\* The tags filter of getMockPosts: skipped for no tags or an empty array.
MockTagsFilter(list, tags) ==
  IF IsSome(tags) /\ Len(Val(tags)) > 0
  THEN SelectSeq(list, LAMBDA post :
         \E i \in 1..Len(Val(tags)) : Val(tags)[i] \in Range(post.tags))
  ELSE list

\* Mutant of getMockPosts: the filtered list is returned without slicing.
getMockPostsUnpaged(arg) ==
  IF ~IsSome(arg)
  THEN [threw |-> TRUE]
  ELSE LET q == Val(arg)
           page == IF IsSome(q.page) THEN Val(q.page) ELSE 1
           pageSize == IF IsSome(q.pageSize) THEN Val(q.pageSize) ELSE 10
           filteredPosts == MockTagsFilter(MockSearchFilter(mockPosts, q.search), q.tags)
           total == Len(filteredPosts)
       IN [threw |-> FALSE,
           value |-> [posts |-> filteredPosts,
                      total |-> total,
                      page |-> page,
                      pageSize |-> pageSize,
                      totalPages |-> Ceil(total, pageSize)]]

\* getMockPosts({ page = 1, pageSize = 10, search, tags }): the parameter has
\* no default, so a call without an argument (arg = None) throws a TypeError
\* when the pattern is destructured.
getMockPosts(arg) ==
  IF ~IsSome(arg)
  THEN [threw |-> TRUE]
  ELSE LET q == Val(arg)
           page == IF IsSome(q.page) THEN Val(q.page) ELSE 1
           pageSize == IF IsSome(q.pageSize) THEN Val(q.pageSize) ELSE 10
           filteredPosts == MockTagsFilter(MockSearchFilter(mockPosts, q.search), q.tags)
           total == Len(filteredPosts)
           start == (page - 1) * pageSize
       IN [threw |-> FALSE,
           value |-> [posts |-> slice(filteredPosts, start, start + pageSize),
                      total |-> total,
                      page |-> page,
                      pageSize |-> pageSize,
                      totalPages |-> Ceil(total, pageSize)]]

\* getMockAllPosts: this.getMockPosts() with no argument, then .posts
getMockAllPosts ==
  LET mockData == getMockPosts(None) IN
  IF mockData.threw THEN [threw |-> TRUE]
  ELSE [threw |-> FALSE, value |-> mockData.value.posts]

\* getMockPostBySlug: find in getMockAllPosts(), or null (None).
getMockPostBySlug(slug) ==
  LET all == getMockAllPosts IN
  IF all.threw THEN [threw |-> TRUE]
  ELSE [threw |-> FALSE,
        value |-> IF \E i \in 1..Len(all.value) : all.value[i].slug = slug
                  THEN Some(all.value[CHOOSE i \in 1..Len(all.value) :
                                        /\ all.value[i].slug = slug
                                        /\ \A j \in 1..(i - 1) : all.value[j].slug # slug])
                  ELSE None]

\* What the fetch of a read operation does: it answers 2xx with JSON ("ok"),
\* it throws (network error), or it answers 404 or 500.
FetchOutcomes == {"ok", "throws", "status404", "status500"}

\* The outcomes that take getPosts and getAllPosts into their catch block.
FetchFails(outcome) == outcome # "ok"

\* The arguments of BlogAPI.getPosts: None is undefined.
ClientQueries ==
  [page : {None, Some(2)},
   pageSize : {None, Some(1), Some(2)},
   search : {None, Some(<<>>), Some(<<"A", "R", "T">>), Some(<<"z", "z", "z">>)},
   tags : {None, Some(<<"css">>), Some(<<"sql", "tutorial">>)}]

\* The slugs asked of getPostBySlug: the second fixture post's and an unknown one.
ClientSlugs == {mockPosts[2].slug, <<"n", "o", "n", "e">>}

\* BlogAPI.getPosts(q)
BlogAPIGetPosts(q, outcome) ==
  /\ LET page == IF IsSome(q.page) THEN Val(q.page) ELSE 1
         pageSize == IF IsSome(q.pageSize) THEN Val(q.pageSize) ELSE 10
         call == [op |-> "BlogAPI.getPosts", query |-> q, fetch |-> outcome]
     IN IF ~FetchFails(outcome)
        THEN resp' = call @@ [settled |-> "resolved", source |-> "server"]
        ELSE LET m == getMockPosts(Some([page |-> Some(page),
                                         pageSize |-> Some(pageSize),
                                         search |-> q.search,
                                         tags |-> q.tags])) IN
             IF m.threw
             THEN resp' = call @@ [settled |-> "rejected"]
             ELSE resp' = call @@ [settled |-> "resolved", source |-> "fixture",
                                   value |-> m.value]
  /\ UNCHANGED <<posts, nextId, now, inflight, imageVars, uploads, home>>

\* BlogAPI.getAllPosts()
BlogAPIGetAllPosts(outcome) ==
  /\ LET call == [op |-> "BlogAPI.getAllPosts", fetch |-> outcome] IN
     IF ~FetchFails(outcome)
     THEN resp' = call @@ [settled |-> "resolved", source |-> "server"]
     ELSE LET m == getMockAllPosts IN
          IF m.threw
          THEN resp' = call @@ [settled |-> "rejected"]
          ELSE resp' = call @@ [settled |-> "resolved", source |-> "fixture",
                                value |-> m.value]
  /\ UNCHANGED <<posts, nextId, now, inflight, imageVars, uploads, home>>

\* BlogAPI.getPostBySlug(slug): a 404 resolves with null before the ok test.
BlogAPIGetPostBySlug(slug, outcome) ==
  /\ LET call == [op |-> "BlogAPI.getPostBySlug", slug |-> slug, fetch |-> outcome] IN
     IF outcome = "status404"
     THEN resp' = call @@ [settled |-> "resolved", source |-> "server",
                           value |-> None]
     ELSE IF ~FetchFails(outcome)
     THEN resp' = call @@ [settled |-> "resolved", source |-> "server"]
     ELSE LET m == getMockPostBySlug(slug) IN
          IF m.threw
          THEN resp' = call @@ [settled |-> "rejected"]
          ELSE resp' = call @@ [settled |-> "resolved", source |-> "fixture",
                                value |-> m.value]
  /\ UNCHANGED <<posts, nextId, now, inflight, imageVars, uploads, home>>

\* The read operations of the client, with every outcome of the fetch.
ClientNext ==
  \/ \E q \in ClientQueries, outcome \in FetchOutcomes : BlogAPIGetPosts(q, outcome)
  \/ \E outcome \in FetchOutcomes : BlogAPIGetAllPosts(outcome)
  \/ \E slug \in ClientSlugs, outcome \in FetchOutcomes :
       BlogAPIGetPostBySlug(slug, outcome)

ClientSpec == Init /\ [][ClientNext]_vars

(***************************************************************************)
(* HomePage: the state of the component and the BlogAPI.getPosts calls its *)
(* fetch effect has started.  React runs the effects of a render in order  *)
(* (the fetch effect, then the page-reset effect) and renders again when   *)
(* an effect changes state, before any response is handled; so one user    *)
(* event, with the renders and effects it causes, is one action.  `event`  *)
(* and `pageBefore` record the last user event and the page it started     *)
(* from.                                                                   *)
(***************************************************************************)
\* The most getPosts calls the page starts in one behaviour.
MaxFetches == 5

\* The search texts, tag selections and pages the user chooses from.
HomeSearches == {"", "a"}
HomeTagLists == {<<>>, <<"css">>}
HomePages == 1..2

\* The argument of BlogAPI.getPosts in the fetch effect, numbered by its call.
FetchRequest(n, page, searchQuery, selectedTags) ==
  [n |-> n, page |-> page, search |-> searchQuery, tags |-> selectedTags]

\* The calls started when `page`, `searchQuery` or `selectedTags` changed: the
\* fetch effect runs with the page of that render; then the reset effect's
\* setCurrentPage(1), when called by a changed search or tag selection on a
\* page other than 1, renders again and the fetch effect runs once more.
FetchesAfter(issued, page, searchQuery, selectedTags, reset) ==
  IF reset /\ page # 1
  THEN {FetchRequest(issued + 1, page, searchQuery, selectedTags),
        FetchRequest(issued + 2, 1, searchQuery, selectedTags)}
  ELSE {FetchRequest(issued + 1, page, searchQuery, selectedTags)}

\* The first render.  SearchBar's tags effect calls onTagFilter with its own
\* empty array, a new value for selectedTags, so the effects run twice.
Mount ==
  /\ home = Unmounted
  /\ home' = [mounted |-> TRUE,
              postsData |-> None,
              searchQuery |-> "",
              selectedTags |-> <<>>,
              currentPage |-> 1,
              pending |-> {FetchRequest(1, 1, "", <<>>), FetchRequest(2, 1, "", <<>>)},
              issued |-> 2,
              event |-> "mount",
              pageBefore |-> 1]
  /\ UNCHANGED <<posts, nextId, now, resp, inflight, imageVars, uploads>>

\* handleSearch(q) after the debounce, for a text other than the current one.
UserSearch(q) ==
  /\ home.mounted
  /\ q # home.searchQuery
  /\ home.issued + 2 <= MaxFetches
  /\ LET new == FetchesAfter(home.issued, home.currentPage, q, home.selectedTags, TRUE)
     IN home' = [home EXCEPT !.searchQuery = q,
                             !.currentPage = 1,
                             !.pending = @ \cup new,
                             !.issued = @ + Cardinality(new),
                             !.event = "search",
                             !.pageBefore = home.currentPage]
  /\ UNCHANGED <<posts, nextId, now, resp, inflight, imageVars, uploads>>

\* handleTagFilter(tags) after a tag is toggled: always a new array.
UserTags(tags) ==
  /\ home.mounted
  /\ home.issued + 2 <= MaxFetches
  /\ LET new == FetchesAfter(home.issued, home.currentPage, home.searchQuery, tags, TRUE)
     IN home' = [home EXCEPT !.selectedTags = tags,
                             !.currentPage = 1,
                             !.pending = @ \cup new,
                             !.issued = @ + Cardinality(new),
                             !.event = "tags",
                             !.pageBefore = home.currentPage]
  /\ UNCHANGED <<posts, nextId, now, resp, inflight, imageVars, uploads>>

\* onPageChange(page) of the Pagination, shown once posts are displayed.
GoToPage(page) ==
  /\ home.mounted
  /\ IsSome(home.postsData)
  /\ page # home.currentPage
  /\ home.issued + 1 <= MaxFetches
  /\ LET new == FetchesAfter(home.issued, page, home.searchQuery, home.selectedTags, FALSE)
     IN home' = [home EXCEPT !.currentPage = page,
                             !.pending = @ \cup new,
                             !.issued = @ + Cardinality(new),
                             !.event = "page",
                             !.pageBefore = home.currentPage]
  /\ UNCHANGED <<posts, nextId, now, resp, inflight, imageVars, uploads>>

\* A getPosts call settles (it never rejects) and the fetch effect that
\* awaited it calls setPostsData(data), whatever has been started since.
Settle(r) ==
  /\ home.mounted
  /\ r \in home.pending
  /\ home' = [home EXCEPT !.pending = @ \ {r},
                          !.postsData = Some(r)]
  /\ UNCHANGED <<posts, nextId, now, resp, inflight, imageVars, uploads>>

\* The home page in use: the user searches, filters and pages while calls settle.
HomeNext ==
  \/ Mount
  \/ \E q \in HomeSearches : UserSearch(q)
  \/ \E tags \in HomeTagLists : UserTags(tags)
  \/ \E page \in HomePages : GoToPage(page)
  \/ \E n \in 1..MaxFetches, page \in HomePages, q \in HomeSearches,
        tags \in HomeTagLists : Settle(FetchRequest(n, page, q, tags))

HomeSpec == Init /\ [][HomeNext]_vars

(***************************************************************************)
(* generateSlug on its own: the server's copy and the client's copy        *)
(* applied to a title, and the server's copy applied to its own result.    *)
(***************************************************************************)
\* The characters of the titles: a lower-case and an upper-case letter, a digit,
\* a space, a hyphen and a punctuation mark.
TitleChars == {"a", "B", "1", " ", "-", "!"}

HelloWorldTitle ==
  <<"H", "e", "l", "l", "o", ",", " ", "W", "o", "r", "l", "d", "!", " ", " ",
    "2", "0", "2", "4">>

\* Every title of at most MaxTitleLen characters, and "Hello, World!  2024".
SlugTitles ==
  UNION {[1..n -> TitleChars] : n \in 0..MaxTitleLen} \cup {HelloWorldTitle}

SlugInit ==
  /\ posts = {}
  /\ nextId = 1
  /\ now = 0
  /\ resp \in {[op |-> "title", title |-> t] : t \in SlugTitles}
  /\ inflight = [c \in Clients |-> Idle]
  /\ images = {}
  /\ nextImageId = 1
  /\ uploads = {}
  /\ home = Unmounted

\* The server derives the slug of a title.
ServerGenerateSlug ==
  /\ resp.op = "title"
  /\ resp' = [op |-> "generateSlug", side |-> "server", title |-> resp.title,
              slug |-> generateSlug(resp.title)]
  /\ UNCHANGED <<posts, nextId, now, inflight, imageVars, uploads, home>>

\* The client derives the slug of a title.
ClientGenerateSlug ==
  /\ resp.op = "title"
  /\ resp' = [op |-> "generateSlug", side |-> "client", title |-> resp.title,
              slug |-> BlogAPIGenerateSlug(resp.title)]
  /\ UNCHANGED <<posts, nextId, now, inflight, imageVars, uploads, home>>

\* generateSlug is applied to a slug it returned.
GenerateSlugAgain ==
  /\ resp.op = "generateSlug" /\ resp.side = "server"
  /\ resp' = [op |-> "generateSlugAgain", title |-> resp.title, first |-> resp.slug,
              slug |-> generateSlug(resp.slug)]
  /\ UNCHANGED <<posts, nextId, now, inflight, imageVars, uploads, home>>

SlugNext == ServerGenerateSlug \/ ClientGenerateSlug \/ GenerateSlugAgain

SlugSpec == SlugInit /\ [][SlugNext]_vars

(***************************************************************************)
(* The life of a post: created, retitled, published and unpublished, with *)
(* the server clock moving between the requests.                           *)
(***************************************************************************)
\* Bodies of POST /api/posts: a draft "a", a published "b" with excerpt and
\* tags, and bodies whose title or content is missing or empty.
LifeCreateBodies ==
  { Body(Some(<<"a">>), Some(<<"c">>), None, None, None),
    Body(Some(<<"b">>), Some(<<"c">>), Some(<<"e">>), Some(<<"t1">>), Some(TRUE)),
    Body(None, Some(<<"c">>), None, None, None),
    Body(Some(<<>>), Some(<<"c">>), None, None, None),
    Body(Some(<<"a">>), None, None, None, None),
    Body(Some(<<"a">>), Some(<<>>), None, None, None) }

UnpublishBody == Body(None, None, None, None, Some(FALSE))

\* Bodies of PUT /api/posts/:id: publish, unpublish, and a new title "A!" (whose
\* slug is "a") sent with a new excerpt.
LifeUpdateBodies ==
  { PublishBody,
    UnpublishBody,
    Body(Some(<<"A", "!">>), None, Some(<<"x">>), None, None) }

LifeNext ==
  \/ Tick
  \/ \E body \in LifeCreateBodies : CreatePost(body)
  \/ \E id \in 1..MaxPosts, body \in LifeUpdateBodies : UpdatePost(id, body)

LifeSpec == Init /\ [][LifeNext]_vars

\* Bodies of PUT /api/posts/:id that edit the text of a post: a new content, and
\* a form saved with the title and the content cleared.
EditBodies ==
  { Body(None, Some(<<"d">>), None, None, None),
    Body(Some(<<>>), Some(<<>>), None, None, None) }

\* Posts whose text is edited after their creation.
EditNext ==
  \/ Tick
  \/ \E body \in LifeCreateBodies : CreatePost(body)
  \/ \E id \in 1..MaxPosts, body \in EditBodies : UpdatePost(id, body)

EditSpec == Init /\ [][EditNext]_vars

(***************************************************************************)
(* Properties of POST /api/posts and PUT /api/posts/:id.                   *)
(***************************************************************************)
HasPost(coll, id) == \E p \in coll : p._id = id
PostById(coll, id) == CHOOSE p \in coll : p._id = id

\* Another post than `id` holds the slug derived from the title.
SlugHeldByAnother(coll, title, id) ==
  \E p \in coll : p._id # id /\ p.slug = generateSlug(title)

\* A create request that passes validation and whose title derives a held slug.
CreateCollides(body) ==
  /\ IsSome(body.title) /\ Val(body.title) # <<>>
  /\ IsSome(body.content) /\ Val(body.content) # <<>>
  /\ SlugHeldByAnother(posts, Val(body.title), 0)

\* An update of an existing post whose new title derives a slug another post holds.
UpdateCollides(id, body) ==
  /\ HasPost(posts, id)
  /\ IsSome(body.title) /\ Val(body.title) # <<>>
  /\ SlugHeldByAnother(posts, Val(body.title), id)

\* C11: a create, or an update that changes the title, whose derived slug is held
\* by another post fails (no 2xx response) and leaves the store as it was: no
\* post is overwritten, none is added, the updated post keeps every field.
C11_CollisionLeavesStore ==
  [][ /\ \A body \in LifeCreateBodies :
           (CreateCollides(body) /\ CreatePost(body)) =>
             (posts' = posts /\ resp'.op = "createPost" /\ resp'.status >= 400)
      /\ \A id \in 1..MaxPosts, body \in LifeUpdateBodies :
           (UpdateCollides(id, body) /\ UpdatePost(id, body)) =>
             (posts' = posts /\ resp'.op = "updatePost" /\ resp'.status >= 400)
    ]_vars

\* C11 witness: a create was refused while a retitled post (title "A!", created
\* as "b") holds the slug "a", and the store holds that post alone.
C11_Witness ==
  /\ resp.op = "createPost" /\ resp.status = 500
  /\ \E p \in posts : /\ p.title = <<"A", "!">> /\ p.slug = <<"a">>
                      /\ posts = {p}

\* C12: a slug collision on create or update is answered with a 4xx status, not
\* with the 500 of a store failure.
C12_CollisionIsClientError ==
  [][ /\ \A body \in LifeCreateBodies :
           (CreateCollides(body) /\ CreatePost(body)) =>
             (resp'.status >= 400 /\ resp'.status <= 499)
      /\ \A id \in 1..MaxPosts, body \in LifeUpdateBodies :
           (UpdateCollides(id, body) /\ UpdatePost(id, body)) =>
             (resp'.status >= 400 /\ resp'.status <= 499)
    ]_vars

\* C13: an update of a post whose published_at is set leaves published_at as it
\* was, whatever the update sends.
C13_PublishedAtSetOnce ==
  [][ \A id \in 1..MaxPosts, body \in LifeUpdateBodies :
        (HasPost(posts, id) /\ IsSome(PostById(posts, id).published_at)
           /\ UpdatePost(id, body)) =>
          /\ HasPost(posts', id)
          /\ PostById(posts', id).published_at = PostById(posts, id).published_at
    ]_vars

\* C14: no step clears a published_at that is set, and a successful update with
\* published=false sets published to false and leaves published_at as it was.
C14_PublishedAtNeverCleared ==
  [][ /\ \A p \in posts, q \in posts' :
           (p._id = q._id /\ IsSome(p.published_at)) => IsSome(q.published_at)
      /\ \A id \in 1..MaxPosts, body \in LifeUpdateBodies :
           (body.published = Some(FALSE) /\ HasPost(posts, id)
              /\ UpdatePost(id, body) /\ resp'.status = 200) =>
             /\ ~PostById(posts', id).published
             /\ PostById(posts', id).published_at = PostById(posts, id).published_at
    ]_vars

\* C14 witness: an update has unpublished a post, which keeps its published_at.
C14_Witness ==
  /\ resp.op = "updatePost" /\ resp.status = 200
  /\ Val(resp.post) \in posts
  /\ ~Val(resp.post).published
  /\ IsSome(Val(resp.post).published_at)

BodyFields == {"title", "content", "excerpt", "tags", "featured_image", "published"}

\* C15: a successful update changes only the supplied fields, updated_at, the
\* slug when a title is supplied, and published_at on the first publication;
\* _id, created_at and every other field keep their values, and so does every
\* other post.
C15_PartialUpdate ==
  [][ \A id \in 1..MaxPosts, body \in LifeUpdateBodies :
        (HasPost(posts, id) /\ UpdatePost(id, body) /\ resp'.status = 200) =>
          /\ HasPost(posts', id)
          /\ LET old == PostById(posts, id)
                 new == PostById(posts', id)
             IN /\ new.created_at = old.created_at
                /\ \A f \in BodyFields : body[f] = None => new[f] = old[f]
                /\ body.title = None => new.slug = old.slug
                /\ new.published_at # old.published_at =>
                     (old.published_at = None /\ body.published = Some(TRUE))
                /\ posts' \ {new} = posts \ {old}
    ]_vars

\* C16: the slug of every stored post is generateSlug of its current title.
C16_SlugDerivedFromTitle ==
  \A p \in posts : p.slug = generateSlug(p.title)

\* C16 witness: the post created as "b" (the one with tag t1) has been retitled
\* "A!" by an update, and its slug is now "a".
C16_Witness ==
  /\ resp.op = "updatePost" /\ resp.status = 200
  /\ LET p == Val(resp.post) IN
       /\ p \in posts
       /\ p.tags = <<"t1">>
       /\ p.title = <<"A", "!">>
       /\ p.slug = <<"a">>

\* The title or the content of a create request is missing or empty.
MissingTitleOrContent(body) ==
  \/ body.title = None \/ body.title = Some(<<>>)
  \/ body.content = None \/ body.content = Some(<<>>)

\* C20: a create request whose title or content is missing or empty is answered
\* with 400, and the set of posts is the same before and after it.
C20_InvalidCreateRejected ==
  [][ \A body \in LifeCreateBodies :
        (MissingTitleOrContent(body) /\ CreatePost(body)) =>
          (resp'.op = "createPost" /\ resp'.status = 400 /\ posts' = posts)
    ]_vars

\* C20 witness: a create request was answered with 400 next to a stored post.
C20_Witness ==
  /\ resp.op = "createPost" /\ resp.status = 400
  /\ posts # {}

C18_ImagesHavePosts ==
  \A im \in images : HasPost(posts, im.post_id)

\* C19: an image added to a stored post without a position is last in a
\* position-ascending listing of the images of that post.
C19_AppendedAtEnd ==
  [][ \A id \in PathIds, body \in ImageBodies :
        (HasPost(posts, id) /\ body.file /\ body.position = None
           /\ resp'.op = "addImage" /\ resp'.status = 201
           /\ AddImage(id, body)) =>
          \E s \in ImageSortedOrders(FindImages(images', id)) :
            s[Len(s)] = resp'.image
    ]_vars

(***************************************************************************)
(* Properties of generateSlug.                                             *)
(***************************************************************************)
HelloWorldSlug ==
  <<"h", "e", "l", "l", "o", "-", "w", "o", "r", "l", "d", "-", "2", "0", "2", "4">>

\* C21: generateSlug returns a string for every title, "" for "" and
\* "hello-world-2024" for "Hello, World!  2024", and the server's copy and the
\* client's copy return the same string.
C21_SlugTotalAndShared ==
  resp.op = "generateSlug" =>
    /\ resp.slug \in Seq(Range(LowerLetters) \cup SlugDigits \cup {"-", " ", "!", ","}
                         \cup Range(UpperLetters))
    /\ resp.title = <<>> => resp.slug = <<>>
    /\ resp.title = HelloWorldTitle => resp.slug = HelloWorldSlug
    /\ resp.side = "client" => resp.slug = generateSlug(resp.title)
    /\ resp.side = "server" => resp.slug = BlogAPIGenerateSlug(resp.title)

\* C21 witness: the client's copy has derived "hello-world-2024".
C21_Witness ==
  /\ resp.op = "generateSlug" /\ resp.side = "client"
  /\ resp.title = HelloWorldTitle
  /\ resp.slug = HelloWorldSlug

\* C22: generateSlug applied to a slug it returned returns that slug.
C22_SlugIdempotent ==
  resp.op = "generateSlugAgain" => resp.slug = resp.first

\* C22 witness: a title that generateSlug changed, whose slug has a hyphen at
\* its end, was slugged a second time.
C22_Witness ==
  /\ resp.op = "generateSlugAgain"
  /\ resp.first # resp.title
  /\ Len(resp.first) >= 2
  /\ resp.first[Len(resp.first)] = "-"

\* C27: a slug holds only lower-case letters, digits and hyphens, no two
\* hyphens in a row, and no hyphen at its start or its end.
C27_SlugShape ==
  resp.op = "generateSlug" =>
    /\ \A i \in 1..Len(resp.slug) : resp.slug[i] \in SlugLetters \cup SlugDigits \cup {"-"}
    /\ \A i \in 1..(Len(resp.slug) - 1) : ~(resp.slug[i] = "-" /\ resp.slug[i + 1] = "-")
    /\ resp.slug # <<>> => (resp.slug[1] # "-" /\ resp.slug[Len(resp.slug)] # "-")

(***************************************************************************)
(* Invariants of the stored posts.                                         *)
(***************************************************************************)
\* C28: every stored post with published = true has a published_at.
C28_PublishedHasPublishedAt ==
  \A p \in posts : p.published => IsSome(p.published_at)

\* C28 witness: the post created as a draft (the one without tags) has been
\* published by an update.
C28_Witness ==
  /\ resp.op = "updatePost" /\ resp.status = 200
  /\ LET p == Val(resp.post) IN
       /\ p \in posts
       /\ p.tags = <<>>
       /\ p.published
       /\ IsSome(p.published_at)

\* C29: every stored post has a non-empty title and a non-empty content.
C29_TitleAndContentNonEmpty ==
  \A p \in posts : p.title # <<>> /\ p.content # <<>>

(***************************************************************************)
(* GET /api/posts with a page or a page size of 0.                         *)
(***************************************************************************)
\* C23: a request with pageSize = 0 or page = 0 is answered with a client error,
\* or with a page of a positive page size and a page number of at least 1: never
\* with 500, with more posts than a positive page size, or without a number as
\* totalPages.
C23_NonPositivePaging ==
  (resp.op = "getPosts"
     /\ (Denotes(resp.req.pageSize, 0) \/ Denotes(resp.req.page, 0))) =>
    \/ resp.status >= 400 /\ resp.status <= 499
    \/ /\ resp.status = 200
       /\ resp.pageSize >= 1
       /\ resp.page >= 1
       /\ Len(resp.posts) <= resp.pageSize
       /\ "totalPages" \in DOMAIN resp

(***************************************************************************)
(* Uploads that are not images.                                            *)
(***************************************************************************)
\* C26: an upload to POST /api/upload or POST /api/posts/:id/images that
\* carries no file, or whose payload is not an image, is answered 400, writes
\* no file and creates no image record.
C26_NonImageRejected ==
  [][\A part \in UploadParts :
       ((~part.file \/ ~part.isImage)
          /\ (UploadImage(part) \/ UploadPostImage(1, part, None))) =>
         /\ resp'.status = 400
         /\ uploads' = uploads
         /\ images' = images]_vars

(***************************************************************************)
(* The client's fallback to the fixture.                                   *)
(***************************************************************************)
\* The fixture posts that match a search text and a tag list, stated on the
\* posts themselves: the text occurs, in any case, in title, content or
\* excerpt, and the post carries one of the tags.
FixtureMatching(search, tags) ==
  {post \in Range(mockPosts) :
     /\ (IsSome(search) /\ Val(search) # <<>>) =>
          \/ ContainsIgnoringCase(post.title, Val(search))
          \/ ContainsIgnoringCase(post.content, Val(search))
          \/ ContainsIgnoringCase(post.excerpt, Val(search))
     /\ (IsSome(tags) /\ Val(tags) # <<>>) =>
          Range(Val(tags)) \cap Range(post.tags) # {}}

\* C24: BlogAPI.getPosts never rejects, and when the fetch throws or answers
\* non-2xx it resolves with a page of the fixture for the same page, pageSize,
\* search and tags: at most pageSize posts, all of them matching, total the
\* number of matching fixture posts and totalPages = ceil(total / pageSize).
C24_GetPostsFallsBack ==
  resp.op = "BlogAPI.getPosts" =>
    /\ resp.settled = "resolved"
    /\ FetchFails(resp.fetch) =>
         LET q == resp.query
             page == IF IsSome(q.page) THEN Val(q.page) ELSE 1
             pageSize == IF IsSome(q.pageSize) THEN Val(q.pageSize) ELSE 10
             matching == FixtureMatching(q.search, q.tags)
             v == resp.value
         IN /\ resp.source = "fixture"
            /\ v.page = page
            /\ v.pageSize = pageSize
            /\ v.total = Cardinality(matching)
            /\ Range(v.posts) \subseteq matching
            /\ Len(v.posts) <= pageSize
            /\ v.totalPages * pageSize >= v.total
            /\ (v.totalPages - 1) * pageSize < v.total

\* The fetch threw and getPosts resolved with a page cut to pageSize = 2 of
\* the three fixture posts.
C24_Witness ==
  /\ resp.op = "BlogAPI.getPosts"
  /\ resp.fetch = "throws"
  /\ resp.settled = "resolved"
  /\ resp.value.total = 3
  /\ resp.value.pageSize = 2
  /\ Len(resp.value.posts) = 2

\* C25: BlogAPI.getAllPosts and BlogAPI.getPostBySlug, when the fetch throws
\* or answers non-2xx, resolve with all fixture posts, or with the fixture post
\* of that slug (null when there is none), and never reject.
C25_ReadsFallBack ==
  /\ (resp.op = "BlogAPI.getAllPosts" /\ resp.fetch # "ok") =>
       /\ resp.settled = "resolved"
       /\ resp.source = "fixture"
       /\ resp.value = mockPosts
  /\ (resp.op = "BlogAPI.getPostBySlug" /\ resp.fetch # "ok") =>
       /\ resp.settled = "resolved"
       /\ resp.source = "fixture"
       /\ \A post \in Range(mockPosts) :
            post.slug = resp.slug => resp.value = Some(post)
       /\ (\A post \in Range(mockPosts) : post.slug # resp.slug) => resp.value = None

(***************************************************************************)
(* HomePage: responses that arrive out of order.                           *)
(***************************************************************************)
\* C30: after the search text or the selected tags changed on a page beyond
\* the first, the page is 1 and, once every getPosts call has settled, the
\* displayed postsData is the response to the latest call: page 1 with the
\* current search text and tags.
C30_LatestResponseShown ==
  (home.mounted /\ home.event \in {"search", "tags"} /\ home.pageBefore > 1) =>
    /\ home.currentPage = 1
    /\ home.pending = {} =>
         /\ IsSome(home.postsData)
         /\ Val(home.postsData).page = 1
         /\ Val(home.postsData).search = home.searchQuery
         /\ Val(home.postsData).tags = home.selectedTags

====
